---------------------------- MODULE Spec2Model ----------------------------
(***************************************************************************)
(* Model of the rule-based fraud scoring engine (fraud_detector.py) and of *)
(* the HTTP handler that drives it (main.py).                              *)
(*                                                                         *)
(* Representation.                                                         *)
(*   - Python dicts are functions over string keys; a key that is absent   *)
(*     from the dict is absent from the DOMAIN, so d['k'] on a missing key *)
(*     is a KeyError and d.get('k') is None.                               *)
(*   - Weights and scores are exact decimals counted in thousandths        *)
(*     (0.4 is 400).  confidence is counted in 1/6000 because of the n/3   *)
(*     term (1.0 is 6000).  Binary floating point rounding is not          *)
(*     modelled.                                                           *)
(*   - Amounts are counted in cents.  An average is the exact fraction     *)
(*     [num, den].                                                         *)
(*   - Time is counted in minutes; minute 0 is a Monday 00:00.             *)
(*   - A collaborator (history query, count query, merchant query, the     *)
(*     holiday calendar) either answers or raises; which one is fixed for  *)
(*     the duration of a call by the variable env.                         *)
(***************************************************************************)
EXTENDS Integers, Sequences, FiniteSets, TLC

VARIABLES
    now,              \* wall clock, minutes
    db,               \* the transactions table: sequence of rows, insertion order
    user_profiles,    \* AdvancedFraudDetector.user_profiles (TTLCache)
    rules,            \* AdvancedFraudDetector.rules, flattened in iteration order
    pc,               \* position of the current analyze_transaction call
    via,              \* "direct" (core called on the live detector) or "api" (main.py)
    transaction,      \* the dict handed to analyze_transaction
    env,              \* collaborator answers for the current call
    start_time,       \* analyze_transaction local
    user_profile,     \* analyze_transaction local
    ruleIdx,          \* index into rules of the next rule to evaluate
    analysis_result,  \* analyze_transaction local, the dict that is returned
    rule_results,     \* log: every RuleResult returned in this call, in order
    cache_hit,        \* log: the profile of this call was served by the cache
    prev,             \* log: the previous returned call, kept while it is repeated
    stored,           \* log: number of rows inserted since start-up
    lookups,          \* position and locals of each concurrent get_user_profile call
    queries           \* log: the collaborator queries issued in this call, in order

vars == << now, db, user_profiles, rules, pc, via, transaction, env, start_time,
           user_profile, ruleIdx, analysis_result, rule_results, cache_hit, prev,
           stored, lookups, queries >>

---------------------------------------------------------------------------
(* Bounds *)

MaxTicks == 2        \* clock advances at most this many times
MaxStores == 1       \* rows inserted after start-up
MaxBurst == 4        \* rows of one user within one minute

(* Program constants *)

ttl == 600                              \* seconds
history_limit == 100
ScoreOne == 1000                        \* 1.0 in thousandths
ConfOne == 6 * ScoreOne                 \* 1.0 in confidence units
Dollars(n) == n * 100                   \* an amount in cents
absolute_threshold == Dollars(5000)

(* The modelled calendar *)
TtlMinutes == ttl \div 60
TickMinutes == TtlMinutes \div 2        \* granularity of the modelled clock
At(week, day, hour, minute) == ((week * 7 + day) * 24 + hour) * 60 + minute
StartTime == At(1, 0, 3, 0)             \* a Monday, 03:00
SatTime == At(1, 5, 10, 0)              \* the Saturday after, 10:00
FriTime == At(0, 4, 10, 0)              \* the Friday before, 10:00
ThuTime == At(0, 3, 10, 0)              \* the Thursday before, 10:00
TueTime == At(1, 1, 10, 0)              \* the Tuesday after, 10:00

None == "None"
Users == {"u1", "u2"}

Min(a, b) == IF a <= b THEN a ELSE b
Max(a, b) == IF a >= b THEN a ELSE b

RECURSIVE SumSeq(_)
SumSeq(s) == IF s = << >> THEN 0 ELSE Head(s) + SumSeq(Tail(s))

Range(s) == { s[i] : i \in DOMAIN s }

(* dict helpers *)
Has(d, k) == k \in DOMAIN d
Get(d, k, default) == IF k \in DOMAIN d THEN d[k] ELSE default
Put(d, k, v) == [x \in (DOMAIN d) \cup {k} |-> IF x = k THEN v ELSE d[x]]

(* datetime helpers *)
HourOf(ts) == (ts \div 60) % 24
WeekdayOf(ts) == (ts \div 1440) % 7

---------------------------------------------------------------------------
(* The transactions table and the three queries of the detector *)

Row(u, amt, cat, loc, ts) ==
    [user_id |-> u, amount |-> amt, merchant_category |-> cat,
     location |-> loc, timestamp |-> ts]

\* _extract_country_from_location; location is the string already split on ','
\* (<< >> is the empty/NULL location)
_extract_country_from_location(location) ==
    IF location = << >> THEN "Unknown"
    ELSE IF Len(location) >= 3 THEN location[Len(location)]
    ELSE "Unknown"

_extract_city_from_location(location) ==
    IF location = << >> THEN "Unknown"
    ELSE IF Len(location) >= 1 THEN location[1]
    ELSE "Unknown"

\* indices of the rows of table that satisfy keep, newest first
\* (equal timestamps: the row inserted first comes first)
RECURSIVE NewestFirst(_, _)
NewestFirst(table, idxs) ==
    IF idxs = {} THEN << >>
    ELSE LET i == CHOOSE a \in idxs : \A b \in idxs :
                      \/ table[a].timestamp > table[b].timestamp
                      \/ table[a].timestamp = table[b].timestamp /\ a <= b
         IN << i >> \o NewestFirst(table, idxs \ {i})

RECURSIVE OldestFirst(_, _)
OldestFirst(table, idxs) ==
    IF idxs = {} THEN << >>
    ELSE LET i == CHOOSE a \in idxs : \A b \in idxs :
                      \/ table[a].timestamp < table[b].timestamp
                      \/ table[a].timestamp = table[b].timestamp /\ a <= b
         IN << i >> \o OldestFirst(table, idxs \ {i})

\* a cut that keeps the whole list
TakeAll(s, n) == s

Take(s, n) == SubSeq(s, 1, Min(n, Len(s)))

\* get_user_transaction_history: the dicts built from the newest `limit` rows
get_user_transaction_history(table, user_id, limit) ==
    LET idxs == { i \in DOMAIN table : table[i].user_id = user_id }
        order == Take(NewestFirst(table, idxs), limit)
    IN [k \in DOMAIN order |->
          LET txn == table[order[k]] IN
          [transaction_id |-> order[k],
           user_id |-> txn.user_id,
           amount |-> txn.amount,
           timestamp |-> txn.timestamp,
           hour |-> HourOf(txn.timestamp),
           day_of_week |-> WeekdayOf(txn.timestamp),
           country |-> _extract_country_from_location(txn.location),
           city |-> _extract_city_from_location(txn.location),
           category |-> txn.merchant_category]]

\* get_transaction_count_in_window
get_transaction_count_in_window(table, user_id, start, end) ==
    Cardinality({ i \in DOMAIN table :
                    /\ table[i].user_id = user_id
                    /\ table[i].timestamp >= start
                    /\ table[i].timestamp <= end })

\* get_merchant_transactions_in_window
get_merchant_transactions_in_window(table, user_id, merchant_category, start, end) ==
    LET idxs == { i \in DOMAIN table :
                    /\ table[i].user_id = user_id
                    /\ table[i].merchant_category = merchant_category
                    /\ table[i].timestamp >= start
                    /\ table[i].timestamp <= end }
        order == OldestFirst(table, idxs)
    IN [k \in DOMAIN order |->
          [transaction_id |-> order[k],
           user_id |-> table[order[k]].user_id,
           merchant_category |-> table[order[k]].merchant_category,
           timestamp |-> table[order[k]].timestamp,
           amount |-> table[order[k]].amount]]

---------------------------------------------------------------------------
(* pandas helpers used by build_user_profile *)

CountOf(s, v) == Cardinality({ i \in DOMAIN s : s[i] = v })

FirstIndex(s, v) == CHOOSE i \in DOMAIN s : s[i] = v /\ \A j \in DOMAIN s : s[j] = v => i <= j

RECURSIVE SortAsc(_)
SortAsc(S) ==
    IF S = {} THEN << >>
    ELSE LET m == CHOOSE a \in S : \A b \in S : a <= b
         IN << m >> \o SortAsc(S \ {m})

\* distinct values by descending frequency, equal frequencies by ascending value
RECURSIVE RankByCountThenValue(_, _)
RankByCountThenValue(s, S) ==
    IF S = {} THEN << >>
    ELSE LET m == CHOOSE a \in S : \A b \in S :
                      \/ CountOf(s, a) > CountOf(s, b)
                      \/ CountOf(s, a) = CountOf(s, b) /\ a <= b
         IN << m >> \o RankByCountThenValue(s, S \ {m})

\* a mode that ranks every value by frequency
ModeRanked(s) == RankByCountThenValue(s, Range(s))

\* Series.mode().tolist(): every value of highest frequency, ascending
Mode(s) ==
    LET top == { v \in Range(s) : \A w \in Range(s) : CountOf(s, v) >= CountOf(s, w) }
    IN SortAsc(top)

\* Series.value_counts().index.tolist(): distinct values by descending
\* frequency, equal frequencies in order of first appearance
RECURSIVE RankByCount(_, _)
RankByCount(s, S) ==
    IF S = {} THEN << >>
    ELSE LET m == CHOOSE a \in S : \A b \in S :
                      \/ CountOf(s, a) > CountOf(s, b)
                      \/ CountOf(s, a) = CountOf(s, b) /\ FirstIndex(s, a) <= FirstIndex(s, b)
         IN << m >> \o RankByCount(s, S \ {m})

value_counts(s) == RankByCount(s, Range(s))

Column(rows, k) == [i \in DOMAIN rows |-> rows[i][k]]

RECURSIVE MaxOf(_)
MaxOf(s) == IF Len(s) = 1 THEN s[1] ELSE Max(Head(s), MaxOf(Tail(s)))

\* the profile returned for a user without history
ColdStartProfile ==
    [transaction_count |-> 0,
     avg_transaction_amount |-> [num |-> 0, den |-> 1],
     max_transaction_amount |-> 0,
     common_hours |-> << >>,
     common_days |-> << >>,
     common_countries |-> << >>,
     common_cities |-> << >>,
     common_categories |-> << >>,
     risk_score |-> 500]

\* build_user_profile on the fetched history (std_transaction_amount,
\* last_location, last_transaction_time and the risk_score of a non-empty
\* history are read by no rule and are left out of the dict)
build_user_profile(user_transactions) ==
    IF user_transactions = << >> THEN ColdStartProfile
    ELSE
      [transaction_count |-> Len(user_transactions),
       avg_transaction_amount |->
           [num |-> SumSeq(Column(user_transactions, "amount")),
            den |-> Len(user_transactions)],
       max_transaction_amount |-> MaxOf(Column(user_transactions, "amount")),
       common_hours |-> Take(Mode(Column(user_transactions, "hour")), 3),
       common_days |-> Take(Mode(Column(user_transactions, "day_of_week")), 3),
       common_countries |-> Take(value_counts(Column(user_transactions, "country")), 3),
       common_cities |-> Take(value_counts(Column(user_transactions, "city")), 5),
       common_categories |-> Take(value_counts(Column(user_transactions, "category")), 5)]

---------------------------------------------------------------------------
(* Rule catalog.  A rule either returns a RuleResult or raises. *)

Ok(v) == [raised |-> FALSE, value |-> v]
Raised(e) == [raised |-> TRUE, value |-> e]

RuleResult(name, triggered, weight, category, details, severity) ==
    [rule_name |-> name, triggered |-> triggered, weight |-> weight,
     category |-> category, details |-> details, severity |-> severity]

\* the sequence of the labels whose condition holds, in order
RECURSIVE Collect(_)
Collect(pairs) ==
    IF pairs = << >> THEN << >>
    ELSE (IF Head(pairs)[1] THEN << Head(pairs)[2] >> ELSE << >>) \o Collect(Tail(pairs))

B(cond, w) == IF cond THEN w ELSE 0

high_amount_rule(txn, profile, table, e) ==
    IF ~Has(txn, "amount") THEN Raised("KeyError: amount")
    ELSE
      LET amount == txn["amount"]
          user_avg == Get(profile, "avg_transaction_amount", [num |-> Dollars(100), den |-> 1])
          user_max == Get(profile, "max_transaction_amount", Dollars(500))
          above_absolute == amount > absolute_threshold
          above_relative == amount * user_avg.den > user_avg.num * 10
          above_historical == amount > user_max * 2
          risk_score == B(above_absolute, 400) + B(above_relative, 300)
                          + B(above_historical, 300)
          details == Collect(<< <<above_absolute, "Above absolute threshold">>,
                                <<above_relative, "Above relative threshold">>,
                                <<above_historical, "Above historical maximum">> >>)
      IN IF above_relative /\ user_avg.num = 0
             THEN Raised("ZeroDivisionError")      \* amount / user_avg in the detail text
         ELSE IF above_historical /\ user_max = 0
             THEN Raised("ZeroDivisionError")      \* amount / user_max in the detail text
         ELSE Ok(RuleResult("High Amount Detection", risk_score > 0,
                            Min(risk_score, 600), "amount_based", details,
                            IF risk_score > 500 THEN "HIGH"
                            ELSE IF risk_score > 300 THEN "MEDIUM" ELSE "LOW"))

round_amount_rule(txn, profile, table, e) ==
    IF ~Has(txn, "amount") THEN Raised("KeyError: amount")
    ELSE
      LET amount == txn["amount"]
          round_hundred == amount % Dollars(100) = 0 /\ amount >= Dollars(500)
          round_fifty == ~round_hundred /\ amount % Dollars(50) = 0 /\ amount >= Dollars(200)
          ends_99 == amount % 100 = 99 /\ amount > Dollars(100)
          risk_score == B(round_hundred, 300) + B(round_fifty, 200) + B(ends_99, 200)
          risk_factors == Collect(<< <<round_hundred, "Round hundred amount">>,
                                     <<round_fifty, "Round fifty amount">>,
                                     <<ends_99, "Suspicious decimal pattern">> >>)
      IN Ok(RuleResult("Round Amount Detection", Len(risk_factors) > 0,
                       Min(risk_score, 400), "amount_based", risk_factors,
                       IF risk_score > 300 THEN "MEDIUM" ELSE "LOW"))

windows ==
    << [window_name |-> "1_minute", minutes |-> 1, max_transactions |-> 2],
       [window_name |-> "5_minutes", minutes |-> 5, max_transactions |-> 5],
       [window_name |-> "15_minutes", minutes |-> 15, max_transactions |-> 10],
       [window_name |-> "1_hour", minutes |-> 60, max_transactions |-> 25] >>

\* a window risk whose severity is not capped at 1.0
WindowRiskUncapped(recent_count, max_transactions) ==
    IF recent_count >= max_transactions
    THEN (200 * (recent_count - max_transactions + 1)) \div max_transactions
    ELSE 0

\* violation_severity * 0.2 for one window, in thousandths
WindowRisk(recent_count, max_transactions) ==
    IF recent_count >= max_transactions
    THEN (200 * Min(recent_count - max_transactions + 1, max_transactions))
             \div max_transactions
    ELSE 0

\* a velocity rule whose windows end at the wall clock instead of at the
\* transaction's timestamp
transaction_velocity_rule_clock(txn, profile, table, e) ==
    IF ~Has(txn, "user_id") THEN Raised("KeyError: user_id")
    ELSE IF ~Has(txn, "timestamp") THEN Raised("KeyError: timestamp")
    ELSE IF e.fault = "count" THEN Raised("count query failed")
    ELSE
      LET current_time == now
          recent_count == [w \in DOMAIN windows |->
              get_transaction_count_in_window(table, txn["user_id"],
                  current_time - windows[w].minutes, current_time)]
          violated(w) == recent_count[w] >= windows[w].max_transactions
          total_risk == SumSeq([w \in DOMAIN windows |->
                          WindowRisk(recent_count[w], windows[w].max_transactions)])
          violations == Collect([w \in DOMAIN windows |->
                          << violated(w), windows[w].window_name >>])
      IN Ok(RuleResult("Transaction Velocity", Len(violations) > 0,
                       Min(total_risk, 700), "velocity_based", violations,
                       IF total_risk > 600 THEN "CRITICAL"
                       ELSE IF total_risk > 400 THEN "HIGH" ELSE "MEDIUM"))

transaction_velocity_rule(txn, profile, table, e) ==
    IF ~Has(txn, "user_id") THEN Raised("KeyError: user_id")
    ELSE IF ~Has(txn, "timestamp") THEN Raised("KeyError: timestamp")
    ELSE IF e.fault = "count" THEN Raised("count query failed")
    ELSE
      LET current_time == txn["timestamp"]
          recent_count == [w \in DOMAIN windows |->
              get_transaction_count_in_window(table, txn["user_id"],
                  current_time - windows[w].minutes, current_time)]
          violated(w) == recent_count[w] >= windows[w].max_transactions
          total_risk == SumSeq([w \in DOMAIN windows |->
                          WindowRisk(recent_count[w], windows[w].max_transactions)])
          violations == Collect([w \in DOMAIN windows |->
                          << violated(w), windows[w].window_name >>])
      IN Ok(RuleResult("Transaction Velocity", Len(violations) > 0,
                       Min(total_risk, 700), "velocity_based", violations,
                       IF total_risk > 600 THEN "CRITICAL"
                       ELSE IF total_risk > 400 THEN "HIGH" ELSE "MEDIUM"))

\* datetime.fromisoformat(transaction['timestamp'].replace('Z', '+00:00')):
\* the minute is the value of key timestamp; the result carries a tzinfo when
\* the string ends in 'Z' or an offset, which is the value of key timestamp_tz
\* (absent when the string has no such suffix)
fromisoformat(txn) ==
    [minute |-> txn["timestamp"], tzinfo |-> Get(txn, "timestamp_tz", None)]

\* the timestamp column is DateTime without time zone: stored timestamps
\* carry no tzinfo
ColumnTzinfo == None

merchant_velocity_rule(txn, profile, table, e) ==
    IF ~Has(txn, "user_id") THEN Raised("KeyError: user_id")
    ELSE IF Get(txn, "merchant_id", None) \in {None, ""}
        THEN Ok(RuleResult("Merchant Velocity", FALSE, 0, "velocity_based", << >>, "LOW"))
    ELSE IF ~Has(txn, "timestamp") THEN Raised("KeyError: timestamp")
    ELSE IF e.fault = "merchant" THEN Raised("merchant query failed")
    ELSE IF /\ fromisoformat(txn).tzinfo # ColumnTzinfo
            /\ get_merchant_transactions_in_window(table, txn["user_id"],
                   txn["merchant_id"], txn["timestamp"] - 60, txn["timestamp"]) # << >>
        \* t['timestamp'] >= five_minutes_ago compares a naive with an aware datetime
        THEN Raised("TypeError: can't compare offset-naive and offset-aware datetimes")
    ELSE
      LET current_time == fromisoformat(txn).minute
          hour_ago == current_time - 60
          merchant_transactions ==
              get_merchant_transactions_in_window(table, txn["user_id"],
                  txn["merchant_id"], hour_ago, current_time)
          five_minutes_ago == current_time - 5
          recent_merchant_transactions ==
              SelectSeq(merchant_transactions, LAMBDA t : t.timestamp >= five_minutes_ago)
          many_hour == Len(merchant_transactions) >= 3
          many_recent == Len(recent_merchant_transactions) >= 2
          risk_score == B(many_hour, 400) + B(many_recent, 300)
          risk_factors == Collect(<< <<many_hour, "same merchant in 1 hour">>,
                                     <<many_recent, "same merchant in 5 minutes">> >>)
      IN Ok(RuleResult("Merchant Velocity", Len(risk_factors) > 0,
                       Min(risk_score, 500), "velocity_based", risk_factors,
                       IF risk_score > 400 THEN "HIGH" ELSE "MEDIUM"))

time_pattern_rule(txn, profile, table, e) ==
    IF ~Has(txn, "timestamp") THEN Raised("KeyError: timestamp")
    ELSE IF ~Has(txn, "location_country") THEN Raised("KeyError: location_country")
    ELSE IF e.holiday = "raise" THEN Raised("NotImplementedError: country")
    ELSE
      LET transaction_time == txn["timestamp"]
          hour == HourOf(transaction_time)
          day_of_week == WeekdayOf(transaction_time)
          user_common_hours == Get(profile, "common_hours", << >>)
          user_common_days == Get(profile, "common_days", << >>)
          late_night == 2 <= hour /\ hour <= 5 /\ hour \notin Range(user_common_hours)
          weekend == /\ day_of_week \in {5, 6}
                     /\ user_common_days # << >>
                     /\ day_of_week \notin Range(user_common_days)
                     /\ \A day \in Range(user_common_days) : day < 5
          holiday == e.holiday = "yes" /\ Len(user_common_days) > 0
          risk_score == B(late_night, 400) + B(weekend, 300) + B(holiday, 200)
          risk_factors == Collect(<< <<late_night, "Late night transaction">>,
                                     <<weekend, "Weekend transaction">>,
                                     <<holiday, "Holiday transaction">> >>)
      IN Ok(RuleResult("Time Pattern Analysis", Len(risk_factors) > 0,
                       Min(risk_score, 500), "behavioral", risk_factors,
                       IF risk_score > 300 THEN "MEDIUM" ELSE "LOW"))

high_risk_countries == {"Country_X", "Country_Y"}

\* a location rule whose weight is not capped at 0.8
location_anomaly_rule_uncapped(txn, profile, table, e) ==
    LET transaction_country == Get(txn, "location_country", "Unknown")
        transaction_city == Get(txn, "location_city", "Unknown")
        user_countries == Get(profile, "common_countries", << >>)
        user_cities == Get(profile, "common_cities", << >>)
        new_country == transaction_country \notin Range(user_countries)
                          /\ Len(user_countries) > 0
        first_time == transaction_country \notin Range(user_countries)
                          /\ Len(user_countries) = 0
        new_city == transaction_city \notin Range(user_cities) /\ Len(user_cities) > 5
        high_risk == transaction_country \in high_risk_countries
        risk_score == B(new_country, 400) + B(first_time, 100) + B(new_city, 300)
                        + B(high_risk, 500)
        risk_factors == Collect(<< <<new_country, "New country">>,
                                   <<new_city, "New city">>,
                                   <<high_risk, "High-risk country">> >>)
    IN Ok(RuleResult("Location Anomaly", Len(risk_factors) > 0,
                     risk_score, "behavioral", risk_factors,
                     IF risk_score > 700 THEN "CRITICAL"
                     ELSE IF risk_score > 400 THEN "HIGH" ELSE "MEDIUM"))

location_anomaly_rule(txn, profile, table, e) ==
    LET transaction_country == Get(txn, "location_country", "Unknown")
        transaction_city == Get(txn, "location_city", "Unknown")
        user_countries == Get(profile, "common_countries", << >>)
        user_cities == Get(profile, "common_cities", << >>)
        new_country == transaction_country \notin Range(user_countries)
                          /\ Len(user_countries) > 0
        first_time == transaction_country \notin Range(user_countries)
                          /\ Len(user_countries) = 0
        new_city == transaction_city \notin Range(user_cities) /\ Len(user_cities) > 5
        high_risk == transaction_country \in high_risk_countries
        risk_score == B(new_country, 400) + B(first_time, 100) + B(new_city, 300)
                        + B(high_risk, 500)
        risk_factors == Collect(<< <<new_country, "New country">>,
                                   <<new_city, "New city">>,
                                   <<high_risk, "High-risk country">> >>)
    IN Ok(RuleResult("Location Anomaly", Len(risk_factors) > 0,
                     Min(risk_score, 800), "behavioral", risk_factors,
                     IF risk_score > 700 THEN "CRITICAL"
                     ELSE IF risk_score > 400 THEN "HIGH" ELSE "MEDIUM"))

\* the collaborator queries that a call of the rule issues, in order: one
\* count query per window up to the first that raises (lines 184-190), one
\* merchant query (lines 227-229), none in the other rules
QueriesOf(name, txn, e) ==
    CASE name = "transaction_velocity_rule" ->
           IF ~Has(txn, "user_id") \/ ~Has(txn, "timestamp") THEN << >>
           ELSE IF e.fault = "count" THEN << "count" >>
           ELSE [w \in DOMAIN windows |-> "count"]
      [] name = "merchant_velocity_rule" ->
           IF \/ ~Has(txn, "user_id")
              \/ Get(txn, "merchant_id", None) \in {None, ""}
              \/ ~Has(txn, "timestamp")
           THEN << >>
           ELSE << "merchant" >>
      [] OTHER -> << >>

\* a catalog that lists the High Amount rule twice and the Round Amount rule
\* not at all
CatalogRepeated ==
    << "high_amount_rule", "high_amount_rule", "transaction_velocity_rule",
       "merchant_velocity_rule", "time_pattern_rule", "location_anomaly_rule" >>

\* self.rules flattened in the iteration order of the dict and its lists
CatalogOrder ==
    << "high_amount_rule", "round_amount_rule", "transaction_velocity_rule",
       "merchant_velocity_rule", "time_pattern_rule", "location_anomaly_rule" >>

\* rule_func(transaction, user_profile)
CallRule(name, txn, profile, table, e) ==
    CASE name = "high_amount_rule" -> high_amount_rule(txn, profile, table, e)
      [] name = "round_amount_rule" -> round_amount_rule(txn, profile, table, e)
      [] name = "transaction_velocity_rule" -> transaction_velocity_rule(txn, profile, table, e)
      [] name = "merchant_velocity_rule" -> merchant_velocity_rule(txn, profile, table, e)
      [] name = "time_pattern_rule" -> time_pattern_rule(txn, profile, table, e)
      [] name = "location_anomaly_rule" -> location_anomaly_rule(txn, profile, table, e)

---------------------------------------------------------------------------
(* Score aggregation *)

\* calculate_confidence without the early return for an empty list
calculate_confidence_no_default(triggered_rules) ==
    LET total_weight == SumSeq(Column(triggered_rules, "weight"))
        rule_count == Len(triggered_rules)
        agreement_factor == Min(rule_count * 2000, ConfOne)
        weight_factor == Min(total_weight, ScoreOne) * 6
    IN (agreement_factor + weight_factor) \div 2

\* calculate_confidence with a weight factor that is not capped at 1.0
calculate_confidence_unclamped(triggered_rules) ==
    IF triggered_rules = << >> THEN ConfOne
    ELSE LET total_weight == SumSeq(Column(triggered_rules, "weight"))
             rule_count == Len(triggered_rules)
             agreement_factor == Min(rule_count * 2000, ConfOne)
             weight_factor == total_weight * 6
         IN (agreement_factor + weight_factor) \div 2

\* a confidence that is the weight factor alone, without the agreement factor
calculate_confidence_weight_only(triggered_rules) ==
    IF triggered_rules = << >> THEN ConfOne
    ELSE Min(SumSeq(Column(triggered_rules, "weight")), ScoreOne) * 6

\* in confidence units: (min(n/3, 1) + min(W, 1)) / 2
calculate_confidence(triggered_rules) ==
    IF triggered_rules = << >> THEN ConfOne
    ELSE LET total_weight == SumSeq(Column(triggered_rules, "weight"))
             rule_count == Len(triggered_rules)
             agreement_factor == Min(rule_count * 2000, ConfOne)
             weight_factor == Min(total_weight, ScoreOne) * 6
         IN (agreement_factor + weight_factor) \div 2

calculate_risk_level(fraud_score) ==
    IF fraud_score >= 800 THEN "CRITICAL"
    ELSE IF fraud_score >= 600 THEN "HIGH"
    ELSE IF fraud_score >= 300 THEN "MEDIUM"
    ELSE "LOW"

\* a recommendation that blocks on the score alone
get_recommendation_any_confidence(fraud_score, confidence) ==
    IF fraud_score >= 800 THEN "BLOCK"
    ELSE IF fraud_score >= 600 THEN "REVIEW"
    ELSE IF fraud_score >= 400 THEN "MONITOR"
    ELSE "APPROVE"

get_recommendation(fraud_score, confidence) ==
    IF fraud_score >= 800 /\ confidence >= 4200 THEN "BLOCK"
    ELSE IF fraud_score >= 600 THEN "REVIEW"
    ELSE IF fraud_score >= 400 THEN "MONITOR"
    ELSE "APPROVE"

---------------------------------------------------------------------------
(* Inputs *)

EmptyDict == [k \in {} |-> None]
Without(d, k) == [x \in (DOMAIN d) \ {k} |-> d[x]]
Restrict(d, keys) == [x \in (DOMAIN d) \cap keys |-> d[x]]

NYC == << "NYC", "NY", "US" >>

SeedHistory ==
    << Row("u1", Dollars(40), "grocery", NYC, FriTime),
       Row("u1", Dollars(60), "grocery", NYC, ThuTime),
       Row("u2", Dollars(100), "travel", << "Paris" >>, FriTime) >>

SeedBurst ==
    << Row("u1", Dollars(40), "grocery", NYC, StartTime - 30),
       Row("u1", Dollars(40), "grocery", NYC, StartTime - 30),
       Row("u1", Dollars(40), "grocery", NYC, StartTime - 1) >>

Seeds == { << >>, SeedHistory \o SeedBurst }

StoredRows(ts) == { Row("u1", Dollars(40), "grocery", NYC, ts) }

Amounts == { Dollars(40), Dollars(200) - 1, Dollars(10000), Dollars(10000) + 1 }

Contexts ==
    { [merchant_id |-> "grocery", location_country |-> "US",
       location_city |-> "NYC", timestamp |-> StartTime],
      [location_country |-> "FR", location_city |-> "Paris", timestamp |-> SatTime],
      [merchant_id |-> "grocery", location_country |-> "Country_X",
       location_city |-> "Xville", timestamp |-> TueTime],
      [merchant_id |-> "grocery", location_country |-> "US",
       location_city |-> "NYC", timestamp |-> TueTime] }

WellFormed ==
    { [k \in (DOMAIN c) \cup {"transaction_id", "user_id", "amount"} |->
          CASE k = "transaction_id" -> "txn_1"
            [] k = "user_id" -> "u1"
            [] k = "amount" -> a
            [] OTHER -> c[k]] : a \in Amounts, c \in Contexts }

RequiredFields == { "user_id", "amount", "timestamp", "location_country" }

Malformed ==
    LET base == [transaction_id |-> "txn_1", user_id |-> "u1", merchant_id |-> "grocery",
                 amount |-> Dollars(10000), location_country |-> "US",
                 location_city |-> "NYC", timestamp |-> StartTime]
    IN { Without(base, k) : k \in RequiredFields }

OtherUser ==
    { [transaction_id |-> "txn_2", user_id |-> "u2", merchant_id |-> "travel",
       amount |-> Dollars(500), location_country |-> "US",
       location_city |-> "NYC", timestamp |-> SatTime] }

\* amount is an unconstrained float: a zero amount passes validation
ZeroAmount ==
    { [transaction_id |-> "txn_3", user_id |-> "u1", merchant_id |-> "grocery",
       amount |-> 0, location_country |-> "US",
       location_city |-> "NYC", timestamp |-> StartTime] }

Transactions == WellFormed \cup OtherUser \cup ZeroAmount \cup Malformed

\* request bodies sent to the HTTP endpoint
Requests == { t \in WellFormed : t["amount"] = Dollars(10000) } \cup Malformed

Envs ==
    { [fault |-> f, holiday |-> "no"] : f \in {"none", "history", "count", "merchant"} }
    \cup { [fault |-> "none", holiday |-> h] : h \in {"yes", "raise"} }

---------------------------------------------------------------------------
(* TTLCache *)

CacheContains(cache, key, time) == key \in DOMAIN cache /\ time < cache[key].expires

\* TTLCache.expire: drop the entries whose time is up
CacheExpire(cache, time) ==
    [k \in { x \in DOMAIN cache : time < cache[x].expires } |-> cache[k]]

\* a write that keeps no entry but its own
CacheSetOnly(cache, key, value, time) ==
    Put(EmptyDict, key, [value |-> value, expires |-> time + TtlMinutes])

\* TTLCache.__setitem__
CacheSet(cache, key, value, time) ==
    Put(CacheExpire(cache, time), key, [value |-> value, expires |-> time + TtlMinutes])

---------------------------------------------------------------------------
(* analyze_transaction *)

Callers == {"c1", "c2"}
IdleLookup == [pc |-> "idle", user_id |-> None, profile |-> [none |-> TRUE]]
NoLookups == [c \in Callers |-> IdleLookup]

NoTxn == [none |-> TRUE]
NoPrev == [valid |-> FALSE]
NoProfile == [none |-> TRUE]

InitialResult(txn) ==
    [transaction_id |-> Get(txn, "transaction_id", None),
     is_fraud |-> FALSE,
     fraud_score |-> 0,
     confidence |-> 0,
     risk_level |-> "LOW",
     triggered_rules |-> << >>,
     rule_details |-> EmptyDict,
     processing_time_ms |-> 0,
     recommendation |-> "APPROVE"]

\* a loop body that adds the weight of every rule result, triggered or not
AccumulateAlways(result, rule_result) ==
    IF rule_result.triggered
    THEN [result EXCEPT !.triggered_rules = Append(@, rule_result),
                        !.fraud_score = @ + rule_result.weight,
                        !.rule_details = Put(@, rule_result.rule_name, rule_result)]
    ELSE [result EXCEPT !.fraud_score = @ + rule_result.weight]

\* the body of `if rule_result['triggered']`
Accumulate(result, rule_result) ==
    IF rule_result.triggered
    THEN [result EXCEPT !.triggered_rules = Append(@, rule_result),
                        !.fraud_score = @ + rule_result.weight,
                        !.rule_details = Put(@, rule_result.rule_name, rule_result)]
    ELSE result

\* the statements after the rule loop
Finalize(result, elapsed_minutes) ==
    LET fraud_score == Min(result.fraud_score, ScoreOne)
        confidence == calculate_confidence(result.triggered_rules)
    IN [result EXCEPT !.fraud_score = fraud_score,
                      !.confidence = confidence,
                      !.risk_level = calculate_risk_level(fraud_score),
                      !.recommendation = get_recommendation(fraud_score, confidence),
                      !.is_fraud = fraud_score > 500,
                      !.processing_time_ms = elapsed_minutes * 60000]

\* an except clause that returns the result without recording the failure
HandlerSilent(result, e) == result

\* the except clause
Handler(result, e) == Put(result, "error", e)

Init ==
    /\ now = StartTime
    /\ db \in Seeds
    /\ user_profiles = EmptyDict
    /\ rules = CatalogOrder
    /\ pc = "idle"
    /\ via = "direct"
    /\ transaction = NoTxn
    /\ env = [fault |-> "none", holiday |-> "no"]
    /\ start_time = StartTime
    /\ user_profile = NoProfile
    /\ ruleIdx = 1
    /\ analysis_result = InitialResult(NoTxn)
    /\ rule_results = << >>
    /\ cache_hit = FALSE
    /\ prev = NoPrev
    /\ stored = 0
    /\ lookups = NoLookups
    /\ queries = << >>

\* the clock advances (in steps much longer than a call)
Tick ==
    /\ pc = "idle"
    /\ now < StartTime + MaxTicks * TickMinutes
    /\ now' = now + TickMinutes
    /\ UNCHANGED << db, user_profiles, rules, pc, via, transaction, env, start_time,
                    user_profile, ruleIdx, analysis_result, rule_results, cache_hit,
                    prev, stored >>
    /\ UNCHANGED << lookups, queries >>

\* main.py store_transaction: a row is inserted with timestamp NOW().  The
\* analysis coroutine never yields to the event loop (its collaborator calls
\* are synchronous), so the insert runs between analyses.
store_transaction ==
    /\ pc = "idle"
    /\ stored < MaxStores
    /\ \E row \in StoredRows(now) : db' = Append(db, row)
    /\ stored' = stored + 1
    /\ UNCHANGED << now, user_profiles, rules, pc, via, transaction, env, start_time,
                    user_profile, ruleIdx, analysis_result, rule_results, cache_hit,
                    prev >>
    /\ UNCHANGED << lookups, queries >>

\* entry of a call: start_time and the initial result dict
Begin(txn, e, how) ==
    /\ transaction' = txn
    /\ env' = e
    /\ via' = how
    /\ start_time' = now
    /\ analysis_result' = InitialResult(txn)
    /\ user_profile' = NoProfile
    /\ ruleIdx' = 1
    /\ rule_results' = << >>
    /\ cache_hit' = FALSE
    /\ queries' = << >>
    /\ pc' = "PROFILE_FETCH"

\* the core is called on the live detector
analyze_transaction ==
    /\ pc = "idle"
    /\ ~prev.valid
    /\ \E txn \in Transactions, e \in Envs : Begin(txn, e, "direct")
    /\ UNCHANGED << now, db, user_profiles, rules, prev, stored >>
    /\ UNCHANGED lookups

\* the caller repeats its previous call: same transaction, and the
\* collaborators fail or answer as they did (prev is the log of that call);
\* a repeated HTTP request gets a new detector like every request
analyze_again ==
    /\ pc = "idle"
    /\ prev.valid
    /\ Begin(prev.transaction, prev.env, prev.via)
    /\ user_profiles' = IF prev.via = "api" THEN EmptyDict ELSE user_profiles
    /\ UNCHANGED << now, db, rules, prev, stored >>
    /\ UNCHANGED lookups

\* main.py: the request body is validated against TransactionRequest, then a
\* new detector is built and called with model_dump() of the request
RequestFields == { "user_id", "merchant_id", "amount", "location_country", "location_city" }

api_analyze_transaction ==
    /\ pc = "idle"
    /\ ~prev.valid
    /\ \E body \in Requests, e \in Envs :
         IF RequestFields \subseteq DOMAIN body
         THEN /\ Begin(Restrict(body, RequestFields), e, "api")
              /\ user_profiles' = EmptyDict
         ELSE /\ pc' = "REJECTED"
              /\ transaction' = body
              /\ via' = "api"
              /\ UNCHANGED << user_profiles, env, start_time, analysis_result,
                              user_profile, ruleIdx, rule_results, cache_hit,
                              queries >>
    /\ UNCHANGED << now, db, rules, prev, stored >>
    /\ UNCHANGED lookups

\* the profile that a rebuild for key k stores and returns
Rebuilt(k) == build_user_profile(get_user_transaction_history(db, k, history_limit))

\* the clock reads now and its next reading is the instant `expires`: now
\* stands for every instant from now up to the next reading
LastReadingBefore(expires) ==
    /\ now < expires
    /\ now + TickMinutes >= expires
    /\ now < StartTime + MaxTicks * TickMinutes

\* user_profile = await self.get_user_profile(transaction['user_id'])
get_user_profile ==
    /\ pc = "PROFILE_FETCH"
    /\ IF ~Has(transaction, "user_id")
       THEN /\ pc' = "ERROR"
            /\ analysis_result' = Handler(analysis_result, "KeyError: user_id")
            /\ UNCHANGED << now, user_profiles, user_profile, cache_hit, queries >>
       ELSE
         LET user_id == transaction["user_id"] IN
         IF CacheContains(user_profiles, user_id, now)
         THEN \/ /\ user_profile' = user_profiles[user_id].value
                 /\ cache_hit' = TRUE
                 /\ pc' = "RULES_RUNNING"
                 /\ UNCHANGED << now, user_profiles, analysis_result, queries >>
              \/ \* the entry expires after the membership test of line 331 and
                 \* before the subscript of line 332, which raises KeyError
                 /\ LastReadingBefore(user_profiles[user_id].expires)
                 /\ now' = user_profiles[user_id].expires
                 /\ pc' = "ERROR"
                 /\ analysis_result' = Handler(analysis_result, "KeyError: user_id")
                 /\ UNCHANGED << user_profiles, user_profile, cache_hit, queries >>
         ELSE IF env.fault = "history"
         THEN /\ pc' = "ERROR"
              /\ analysis_result' = Handler(analysis_result, "history query failed")
              /\ queries' = Append(queries, "history")
              /\ UNCHANGED << now, user_profiles, user_profile, cache_hit >>
         ELSE
           LET profile == build_user_profile(
                              get_user_transaction_history(db, user_id, history_limit))
           IN /\ user_profiles' = CacheSet(user_profiles, user_id, profile, now)
              /\ user_profile' = profile
              /\ queries' = Append(queries, "history")
              /\ pc' = "RULES_RUNNING"
              /\ UNCHANGED << now, analysis_result, cache_hit >>
    /\ UNCHANGED << db, rules, via, transaction, env, start_time, ruleIdx,
                    rule_results, prev, stored >>
    /\ UNCHANGED lookups

\* one iteration of the rule loop
run_rule ==
    /\ pc = "RULES_RUNNING"
    /\ ruleIdx <= Len(rules)
    /\ LET out == CallRule(rules[ruleIdx], transaction, user_profile, db, env) IN
       IF out.raised
       THEN /\ pc' = "ERROR"
            /\ analysis_result' = Handler(analysis_result, out.value)
            /\ UNCHANGED << ruleIdx, rule_results >>
       ELSE /\ analysis_result' = Accumulate(analysis_result, out.value)
            /\ rule_results' = Append(rule_results, out.value)
            /\ ruleIdx' = ruleIdx + 1
            /\ pc' = IF ruleIdx = Len(rules) THEN "AGGREGATE" ELSE "RULES_RUNNING"
    /\ queries' = queries \o QueriesOf(rules[ruleIdx], transaction, env)
    /\ UNCHANGED << now, db, user_profiles, rules, via, transaction, env, start_time,
                    user_profile, cache_hit, prev, stored >>
    /\ UNCHANGED lookups

\* normalisation, confidence, risk level, recommendation, is_fraud, timing
aggregate ==
    /\ pc = "AGGREGATE"
    /\ analysis_result' = Finalize(analysis_result, now - start_time)
    /\ pc' = "DONE"
    /\ UNCHANGED << now, db, user_profiles, rules, via, transaction, env, start_time,
                    user_profile, ruleIdx, rule_results, cache_hit, prev, stored >>
    /\ UNCHANGED << lookups, queries >>

Returned == pc \in {"DONE", "ERROR"}

Verdict(result) ==
    [fraud_score |-> result.fraud_score, confidence |-> result.confidence,
     risk_level |-> result.risk_level, recommendation |-> result.recommendation,
     is_fraud |-> result.is_fraud]

\* a call that is logged when the caller goes on to repeat it: a call on the
\* live detector served by the cache, or a first HTTP request that built a
\* profile
Logged ==
    /\ pc \in {"DONE", "ERROR"}
    /\ \/ via = "direct" /\ cache_hit
       \/ via = "api" /\ ~prev.valid /\ user_profile # NoProfile

\* the result is handed to the caller.  The call is logged in prev when the
\* caller goes on to repeat it.
Return ==
    /\ pc \in {"DONE", "ERROR", "REJECTED"}
    /\ pc' = "idle"
    /\ \E again \in BOOLEAN :
       prev' = IF ~again \/ ~Logged THEN NoPrev
               ELSE [valid |-> TRUE, transaction |-> transaction, via |-> via,
                     verdict |-> Verdict(analysis_result),
                     failed |-> Has(analysis_result, "error"),
                     cache_hit |-> cache_hit, user_profile |-> user_profile,
                     db |-> db, env |-> env, at |-> now]
    /\ transaction' = NoTxn
    /\ env' = [fault |-> "none", holiday |-> "no"]
    /\ start_time' = StartTime
    /\ user_profile' = NoProfile
    /\ ruleIdx' = 1
    /\ analysis_result' = InitialResult(NoTxn)
    /\ rule_results' = << >>
    /\ cache_hit' = FALSE
    /\ queries' = << >>
    /\ via' = "direct"
    /\ UNCHANGED << now, db, user_profiles, rules, stored >>
    /\ UNCHANGED lookups

Next ==
    \/ Tick
    \/ store_transaction
    \/ analyze_transaction
    \/ analyze_again
    \/ api_analyze_transaction
    \/ get_user_profile
    \/ run_rule
    \/ aggregate
    \/ Return

Spec == Init /\ [][Next]_vars

TypeOK ==
    /\ pc \in {"idle", "PROFILE_FETCH", "RULES_RUNNING", "AGGREGATE", "DONE", "ERROR",
              "REJECTED", "RULE_RETURNED"}
    /\ ruleIdx \in 1..7
    /\ stored \in 0..MaxStores

---------------------------------------------------------------------------
(* The whole call as one function of its inputs, for a given rule order *)

RECURSIVE RunRules(_, _, _, _, _, _)
RunRules(order, result, txn, profile, table, e) ==
    IF order = << >> THEN Finalize(result, 0)
    ELSE LET out == CallRule(Head(order), txn, profile, table, e) IN
         IF out.raised THEN Handler(result, out.value)
         ELSE RunRules(Tail(order), Accumulate(result, out.value), txn, profile, table, e)

Reverse(s) == [i \in DOMAIN s |-> s[Len(s) + 1 - i]]

Orders == { CatalogOrder, Reverse(CatalogOrder) }

InitOrder ==
    /\ now = StartTime
    /\ db \in Seeds
    /\ user_profiles = EmptyDict
    /\ rules \in Orders
    /\ pc = "idle"
    /\ via = "direct"
    /\ transaction = NoTxn
    /\ env = [fault |-> "none", holiday |-> "no"]
    /\ start_time = StartTime
    /\ user_profile = NoProfile
    /\ ruleIdx = 1
    /\ analysis_result = InitialResult(NoTxn)
    /\ rule_results = << >>
    /\ cache_hit = FALSE
    /\ prev = NoPrev
    /\ stored = 0
    /\ lookups = NoLookups
    /\ queries = << >>

SpecOrder == InitOrder /\ [][Next]_vars

---------------------------------------------------------------------------
(* One analysis of a transaction at RuleTime against a store drawn from a   *)
(* family of histories and bursts                                           *)

RuleTime == TueTime

\* n rows of user u, all with the same amount, category and timestamp
RowsAt(u, amt, cat, ts, n) == [i \in 1..n |-> Row(u, amt, cat, NYC, ts)]

\* histories older than every velocity window
HistoryTables ==
    { << >>,
      \* average 100 dollars, maximum 500 dollars
      << Row("u1", Dollars(500), "grocery", NYC, At(0, 1, 10, 0)) >>
          \o RowsAt("u1", Dollars(20), "grocery", At(0, 2, 10, 0), 5),
      \* hours 10, 10, 11 on three different days
      << Row("u1", Dollars(40), "grocery", NYC, At(0, 1, 10, 0)),
         Row("u1", Dollars(40), "grocery", NYC, At(0, 2, 10, 30)),
         Row("u1", Dollars(40), "grocery", NYC, At(0, 3, 11, 0)) >>,
      \* hours 12, 11, 10, 9, once each, days 3, 3, 2, 1
      << Row("u1", Dollars(40), "grocery", NYC, At(0, 3, 12, 0)),
         Row("u1", Dollars(40), "fuel", << "Paris", "IDF", "FR" >>, At(0, 3, 11, 0)),
         Row("u1", Dollars(40), "grocery", NYC, At(0, 2, 10, 0)),
         Row("u1", Dollars(40), "grocery", << "Paris", "IDF", "FR" >>, At(0, 1, 9, 0)) >>,
      \* hours 9 (twice), 10 (twice), 11, 12 (three times), 13
      RowsAt("u1", Dollars(40), "grocery", At(0, 1, 9, 0), 2)
          \o RowsAt("u1", Dollars(40), "grocery", At(0, 1, 10, 0), 2)
          \o RowsAt("u1", Dollars(40), "grocery", At(0, 2, 11, 0), 1)
          \o RowsAt("u1", Dollars(40), "grocery", At(0, 3, 12, 0), 3)
          \o RowsAt("u1", Dollars(40), "grocery", At(0, 4, 13, 0), 1),
      \* six cities in five countries, on six days at six hours, none in NYC
      << Row("u1", Dollars(40), "grocery", << "Boston", "MA", "US" >>, At(0, 0, 8, 0)),
         Row("u1", Dollars(40), "grocery", << "Austin", "TX", "US" >>, At(0, 1, 9, 0)),
         Row("u1", Dollars(40), "grocery", << "Paris", "IDF", "FR" >>, At(0, 2, 10, 0)),
         Row("u1", Dollars(40), "grocery", << "Berlin", "BE", "DE" >>, At(0, 3, 11, 0)),
         Row("u1", Dollars(40), "grocery", << "Rome", "RM", "IT" >>, At(0, 4, 12, 0)),
         Row("u1", Dollars(40), "grocery", << "Madrid", "MD", "ES" >>, At(0, 5, 13, 0)) >> }

\* rows that no window of a transaction of u1 at RuleTime may count
OutsideRows ==
    << Row("u1", Dollars(40), "grocery", NYC, RuleTime - 61),
       Row("u1", Dollars(40), "grocery", NYC, RuleTime + 1),
       Row("u2", Dollars(40), "grocery", NYC, RuleTime) >>

\* a rows in the last minute, b at the edge of the 5 minute window, c (to
\* another merchant category) at the edge of the 15 minute window, d at the
\* edge of the hour
Burst(a, b, c, d) ==
    OutsideRows
      \o RowsAt("u1", Dollars(40), "grocery", RuleTime, a \div 2)
      \o RowsAt("u1", Dollars(40), "grocery", RuleTime - 1, a - (a \div 2))
      \o RowsAt("u1", Dollars(40), "grocery", RuleTime - 5, b)
      \o RowsAt("u1", Dollars(40), "fuel", RuleTime - 15, c)
      \o RowsAt("u1", Dollars(40), "grocery", RuleTime - 60, d)

BurstTables ==
    { Burst(a, b, c, d) : a \in 0..MaxBurst, b \in {0, 3, 6}, c \in {0, 10}, d \in {0, 30} }

RuleTables == HistoryTables \cup BurstTables

RuleTxn(amount, merchant, country) ==
    [transaction_id |-> "txn_r", user_id |-> "u1", amount |-> amount,
     merchant_id |-> merchant, location_country |-> country,
     location_city |-> "NYC", timestamp |-> RuleTime]

\* amounts on both sides of 5000 dollars, of ten times 100 dollars and of
\* twice 500 dollars
AmountTxns ==
    { RuleTxn(a, "grocery", "US") :
        a \in { Dollars(40), Dollars(1000), Dollars(1000) + 1, Dollars(5000),
                Dollars(5000) + 1, Dollars(10000) } }

VelocityTxns ==
    { RuleTxn(Dollars(40), m, c) : m \in {"grocery", ""}, c \in {"US", "FR", "Country_X"} }
    \cup { Without(RuleTxn(Dollars(40), "", "US"), "merchant_id") }
    \* a timestamp written with the suffix 'Z'
    \cup { Put(RuleTxn(Dollars(40), m, "US"), "timestamp_tz", "UTC") : m \in {"grocery", ""} }

\* amount is an unconstrained float: zero amounts, which the High Amount rule
\* lets through for a user without history
ZeroTxns == { RuleTxn(0, "", c) : c \in {"US", "Country_X"} }

RuleTxns(table) == IF table \in HistoryTables THEN AmountTxns \cup VelocityTxns \cup ZeroTxns
                   ELSE VelocityTxns

RuleEnvs == { [fault |-> f, holiday |-> "no"] : f \in {"none", "merchant"} }

InitRules ==
    /\ now = RuleTime
    /\ db \in RuleTables
    /\ user_profiles = EmptyDict
    /\ rules = CatalogOrder
    /\ pc = "idle"
    /\ via = "direct"
    /\ transaction = NoTxn
    /\ env = [fault |-> "none", holiday |-> "no"]
    /\ start_time = RuleTime
    /\ user_profile = NoProfile
    /\ ruleIdx = 1
    /\ analysis_result = InitialResult(NoTxn)
    /\ rule_results = << >>
    /\ cache_hit = FALSE
    /\ prev = NoPrev
    /\ stored = 0
    /\ lookups = NoLookups
    /\ queries = << >>

\* the core is called once on a new detector
analyze_case ==
    /\ pc = "idle"
    /\ \E txn \in RuleTxns(db), e \in RuleEnvs : Begin(txn, e, "direct")
    /\ UNCHANGED << now, db, user_profiles, rules, prev, stored >>
    /\ UNCHANGED lookups

\* profiles handed to a rule by a caller of the rule itself; the list of
\* cities is longer than build_user_profile makes it
SixCities == << "NYC", "Boston", "Austin", "Denver", "Miami", "Reno" >>

LocationProfiles ==
    { [common_countries |-> << "US" >>, common_cities |-> cities] :
        cities \in { SixCities, Take(SixCities, 5) } }

LocationTxns ==
    { [RuleTxn(Dollars(40), "", country) EXCEPT !.location_city = city] :
        country \in {"US", "FR", "Country_X"}, city \in {"NYC", "Paris"} }

\* location_anomaly_rule(transaction, user_profile) is called on its own
call_location_anomaly_rule ==
    /\ pc = "idle"
    /\ \E txn \in LocationTxns, profile \in LocationProfiles :
         /\ transaction' = txn
         /\ user_profile' = profile
         /\ rule_results' = << location_anomaly_rule(txn, profile, db, env).value >>
    /\ pc' = "RULE_RETURNED"
    /\ UNCHANGED << now, db, user_profiles, rules, via, env, start_time, ruleIdx,
                    analysis_result, cache_hit, prev, stored, lookups, queries >>

NextRules ==
    \/ analyze_case
    \/ call_location_anomaly_rule
    \/ get_user_profile
    \/ run_rule
    \/ aggregate

SpecRules == InitRules /\ [][NextRules]_vars

---------------------------------------------------------------------------
(* Concurrent get_user_profile calls on one detector.  A call may be        *)
(* suspended at each await: after the membership test has missed, and after *)
(* the history has been fetched and the profile built.                      *)

MainUnchanged ==
    UNCHANGED << rules, pc, via, transaction, env, start_time, user_profile, ruleIdx,
                 analysis_result, rule_results, cache_hit, prev, stored, queries >>

\* get_user_profile(user_id) is called
lookup_call(c) ==
    /\ lookups[c].pc = "idle"
    /\ \E k \in Users :
         lookups' = [lookups EXCEPT ![c] = [pc |-> "CHECK", user_id |-> k,
                                            profile |-> NoProfile]]
    /\ UNCHANGED << now, db, user_profiles >>
    /\ MainUnchanged

\* lines 331-332: membership test, and the subscript on a hit
lookup_check(c) ==
    /\ lookups[c].pc = "CHECK"
    /\ LET k == lookups[c].user_id IN
       IF CacheContains(user_profiles, k, now)
       THEN \/ /\ lookups' = [lookups EXCEPT ![c].pc = "RETURNED",
                                             ![c].profile = user_profiles[k].value]
               /\ UNCHANGED now
            \/ /\ LastReadingBefore(user_profiles[k].expires)
               /\ now' = user_profiles[k].expires
               /\ lookups' = [lookups EXCEPT ![c].pc = "RAISED"]
       ELSE /\ lookups' = [lookups EXCEPT ![c].pc = "FETCH"]
            /\ UNCHANGED now
    /\ UNCHANGED << db, user_profiles >>
    /\ MainUnchanged

\* line 335: the history is fetched and the profile built, or the query fails
lookup_fetch(c) ==
    /\ lookups[c].pc = "FETCH"
    /\ \/ lookups' = [lookups EXCEPT ![c].pc = "WRITE",
                                     ![c].profile = Rebuilt(lookups[c].user_id)]
       \/ lookups' = [lookups EXCEPT ![c].pc = "RAISED"]
    /\ UNCHANGED << now, db, user_profiles >>
    /\ MainUnchanged

\* lines 336-337: the profile is stored and returned
lookup_write(c) ==
    /\ lookups[c].pc = "WRITE"
    /\ user_profiles' = CacheSet(user_profiles, lookups[c].user_id, lookups[c].profile, now)
    /\ lookups' = [lookups EXCEPT ![c].pc = "RETURNED"]
    /\ UNCHANGED << now, db >>
    /\ MainUnchanged

\* the caller has its answer and may call again
lookup_done(c) ==
    /\ lookups[c].pc \in {"RETURNED", "RAISED"}
    /\ lookups' = [lookups EXCEPT ![c] = IdleLookup]
    /\ UNCHANGED << now, db, user_profiles >>
    /\ MainUnchanged

NextConc ==
    \/ Tick
    \/ store_transaction
    \/ \E c \in Callers : lookup_call(c)
    \/ \E c \in Callers : lookup_check(c)
    \/ \E c \in Callers : lookup_fetch(c)
    \/ \E c \in Callers : lookup_write(c)
    \/ \E c \in Callers : lookup_done(c)

SpecConc == Init /\ [][NextConc]_vars

---------------------------------------------------------------------------
(* Properties *)

ResultFields ==
    { "transaction_id", "is_fraud", "fraud_score", "confidence", "risk_level",
      "triggered_rules", "rule_details", "processing_time_ms", "recommendation" }

Triggered(results) == SelectSeq(results, LAMBDA r : r.triggered)
TriggeredWeight(results) == SumSeq(Column(Triggered(results), "weight"))

\* C1: every returned result, completed or failed, has 0 <= fraud_score <= 1
\* and 0 <= confidence <= 1.
C1_ScoreAndConfidenceInRange ==
    Returned =>
        /\ 0 <= analysis_result.fraud_score
        /\ analysis_result.fraud_score <= ScoreOne
        /\ 0 <= analysis_result.confidence
        /\ analysis_result.confidence <= ConfOne

\* C2: every returned result, completed or failed, has
\* is_fraud = (fraud_score > 0.5).
C2_IsFraudMatchesScore ==
    Returned => (analysis_result.is_fraud <=> analysis_result.fraud_score > 500)

InCall == pc \in {"PROFILE_FETCH", "RULES_RUNNING", "AGGREGATE"}

\* number of steps a call can still take
Remaining(p, idx) ==
    CASE p = "PROFILE_FETCH" -> Len(CatalogOrder) + 2
      [] p = "RULES_RUNNING" -> Len(CatalogOrder) + 2 - idx
      [] p = "AGGREGATE" -> 1
      [] OTHER -> 0

ResultContained ==
    /\ Returned => ResultFields \subseteq DOMAIN analysis_result
    /\ pc = "ERROR" =>
          /\ Has(analysis_result, "error")
          /\ \/ user_profile = NoProfile
             \/ CallRule(rules[ruleIdx], transaction, user_profile, db, env).raised
    /\ pc = "DONE" =>
          /\ ~Has(analysis_result, "error")
          /\ Len(rule_results) = Len(rules)
    /\ InCall => ~Has(analysis_result, "error")

CallAdvances ==
    InCall => /\ pc' \in {"PROFILE_FETCH", "RULES_RUNNING", "AGGREGATE", "DONE", "ERROR"}
              /\ Remaining(pc', ruleIdx') < Remaining(pc, ruleIdx)

\* C3: every step of a call in progress takes it nearer to its end, and it
\* ends by returning a result that has all nine fields; the
\* result has the error field exactly when something failed in the call (the
\* profile fetch or the rule at ruleIdx raised), and a call in which nothing
\* failed has evaluated every rule.
C3_FailureContained == [](ResultContained) /\ [][CallAdvances]_vars

C3_Witness ==
    /\ pc = "ERROR"
    /\ rule_results # << >>
    /\ Has(analysis_result, "error")

\* C4: a well-formed transaction with amount > 0, analysed against the
\* cold-start profile while no collaborator fails, ends in DONE.
C4_ColdStartCompletes ==
    ( /\ Returned
      /\ user_profile = ColdStartProfile
      /\ RequiredFields \subseteq DOMAIN transaction
      /\ transaction["amount"] > 0
      /\ env = [fault |-> "none", holiday |-> "no"] )
    => pc = "DONE"

\* C5 as stated: a returned result with no triggered rule has confidence 1.0,
\* risk level LOW and recommendation APPROVE.
C5_NoRuleMeansConfident ==
    (Returned /\ analysis_result.triggered_rules = << >>) =>
        /\ analysis_result.confidence = ConfOne
        /\ analysis_result.risk_level = "LOW"
        /\ analysis_result.recommendation = "APPROVE"

\* C5 amended: a returned result with no triggered rule has risk level LOW and
\* recommendation APPROVE; its confidence is 1.0 when it has no error field and
\* 0.0 (the initial value) when it has one.
C5_NoRuleMeansApprove ==
    (Returned /\ analysis_result.triggered_rules = << >>) =>
        /\ analysis_result.risk_level = "LOW"
        /\ analysis_result.recommendation = "APPROVE"
        /\ analysis_result.confidence =
              IF Has(analysis_result, "error") THEN 0 ELSE ConfOne

C5_Witness ==
    /\ pc = "DONE"
    /\ Len(rule_results) = 6
    /\ analysis_result.triggered_rules = << >>

\* the current call repeats the previous one against the same cached profile
SameCachedProfile ==
    /\ Returned
    /\ prev.valid
    /\ prev.transaction = transaction
    /\ prev.cache_hit /\ cache_hit
    /\ prev.user_profile = user_profile
    /\ prev.env = env

\* C6 as stated, for two calls that both complete: two calls with the
\* identical transaction served by the same cached profile return the same
\* fraud_score, confidence, risk_level and recommendation, whatever the
\* transactions table holds at either call.
C6_IdempotentAnyStore ==
    (SameCachedProfile /\ pc = "DONE" /\ ~prev.failed) =>
        Verdict(analysis_result) = prev.verdict

\* C6 amended: two calls with the identical transaction served by the same
\* cached profile return the same fraud_score, confidence, risk_level and
\* recommendation when the transactions table is the same at both calls.
C6_IdempotentSameStore ==
    (SameCachedProfile /\ prev.db = db) => Verdict(analysis_result) = prev.verdict

C6_Witness ==
    /\ SameCachedProfile
    /\ prev.db = db
    /\ pc = "DONE"
    /\ now > prev.at
    /\ analysis_result.triggered_rules # << >>

\* C7: whatever the order of the rule catalog, the returned verdict is the one
\* obtained with the catalog order of the code on the same transaction,
\* profile and collaborator answers.
C7_OrderIndependent ==
    (Returned /\ user_profile # NoProfile) =>
        Verdict(analysis_result) =
            Verdict(RunRules(CatalogOrder, InitialResult(transaction), transaction,
                             user_profile, db, env))

\* C8: a transaction that lacks a required field never gets a profile fetched,
\* a rule evaluated or an analysis-time error result.
C8_MalformedRejected ==
    (pc # "idle" /\ ~(RequiredFields \subseteq DOMAIN transaction)) =>
        /\ user_profile = NoProfile
        /\ rule_results = << >>
        /\ pc # "ERROR"

\* C9: in a completed analysis fraud_score is min(S, 1.0), S being the sum of
\* the weights of those of the six returned rule results that are triggered.
C9_ScoreIsTriggeredSum ==
    pc = "DONE" =>
        /\ Len(rule_results) = 6
        /\ analysis_result.fraud_score = Min(TriggeredWeight(rule_results), ScoreOne)

C9_Witness ==
    /\ pc = "DONE"
    /\ analysis_result.fraud_score > 0
    /\ \E i \in DOMAIN rule_results :
          ~rule_results[i].triggered /\ rule_results[i].weight > 0

\* C10: in a completed analysis with n triggered rules of total weight W,
\* confidence is (min(n/3, 1) + min(W, 1)) / 2 when n >= 1 and 1.0 when n = 0.
C10_ConfidenceFormula ==
    pc = "DONE" =>
        LET n == Len(Triggered(rule_results))
            W == TriggeredWeight(rule_results)
        IN analysis_result.confidence =
              IF n = 0 THEN ConfOne
              ELSE Min(n, 3) * 1000 + Min(W, ScoreOne) * 3

C10_Witness ==
    /\ pc = "DONE"
    /\ Len(Triggered(rule_results)) \in {1, 2}
    /\ TriggeredWeight(rule_results) > ScoreOne

\* C11: a completed analysis has risk_level CRITICAL from 0.8, HIGH from 0.6,
\* MEDIUM from 0.3 and LOW below; recommendation BLOCK from 0.8 with confidence
\* at least 0.7, REVIEW from 0.6, MONITOR from 0.4 and APPROVE below; with
\* 0.5 < fraud_score < 0.6 it is is_fraud, MEDIUM and MONITOR.
C11_DecisionMapping ==
    pc = "DONE" =>
        LET score == analysis_result.fraud_score
            confidence == analysis_result.confidence
        IN /\ analysis_result.risk_level =
                 CASE score >= 800 -> "CRITICAL"
                   [] score < 800 /\ score >= 600 -> "HIGH"
                   [] score < 600 /\ score >= 300 -> "MEDIUM"
                   [] score < 300 -> "LOW"
           /\ analysis_result.recommendation =
                 CASE score >= 800 /\ 10 * confidence >= 7 * ConfOne -> "BLOCK"
                   [] ~(score >= 800 /\ 10 * confidence >= 7 * ConfOne) /\ score >= 600 -> "REVIEW"
                   [] score < 600 /\ score >= 400 -> "MONITOR"
                   [] score < 400 -> "APPROVE"
           /\ (500 < score /\ score < 600) =>
                 /\ analysis_result.is_fraud
                 /\ analysis_result.risk_level = "MEDIUM"
                 /\ analysis_result.recommendation = "MONITOR"

C11_Witness ==
    /\ pc = "DONE"
    /\ 500 < analysis_result.fraud_score
    /\ analysis_result.fraud_score < 600

\* C12: a lookup made while the entry of its key is less than 600 s old is
\* served the cached profile, without a history fetch (it succeeds even when
\* the history collaborator would fail) and without changing the entry or its
\* expiry; a lookup made when there is no entry or the entry is 600 s old or
\* older fetches the history and stores the rebuilt profile with a lifetime
\* of 600 s from that moment.
C12_AbsoluteTtl ==
    [][ (pc = "PROFILE_FETCH" /\ Has(transaction, "user_id")) =>
          LET k == transaction["user_id"] IN
          IF k \in DOMAIN user_profiles /\ now < user_profiles[k].expires
          THEN /\ pc' = "RULES_RUNNING"
               /\ user_profile' = user_profiles[k].value
               /\ user_profiles' = user_profiles
          ELSE IF env.fault = "history"
          THEN pc' = "ERROR" /\ user_profiles' = user_profiles
          ELSE /\ pc' = "RULES_RUNNING"
               /\ user_profile' = Rebuilt(k)
               /\ user_profiles'[k] = [value |-> Rebuilt(k), expires |-> now + ttl \div 60]
      ]_vars

\* C13: a lookup that misses the cache and finds no transaction of the user
\* returns the cold-start profile and leaves the cache as it was.
C13_ColdStartNotCached ==
    [][ ( /\ pc = "PROFILE_FETCH"
          /\ Has(transaction, "user_id")
          /\ ~CacheContains(user_profiles, transaction["user_id"], now)
          /\ env.fault # "history"
          /\ get_user_transaction_history(db, transaction["user_id"], history_limit) = << >> )
        => /\ user_profile' = ColdStartProfile
           /\ user_profiles' = user_profiles
      ]_vars

\* C14: when an analysis of a user arrives as a separate request less than
\* 600 s after a request that built and cached that user's profile, its
\* profile comes from the cache (no history fetch) and is that same profile.
C14_SharedAcrossRequests ==
    ( /\ pc \in {"RULES_RUNNING", "AGGREGATE", "DONE", "ERROR"}
      /\ via = "api"
      /\ prev.valid
      /\ prev.via = "api"
      /\ prev.user_profile # NoProfile
      /\ prev.transaction["user_id"] = transaction["user_id"]
      /\ now < prev.at + ttl \div 60 )
    => /\ cache_hit
       /\ user_profile = prev.user_profile

\* the entry of key k that a lookup at the given time would be served, as a
\* sequence of at most one entry
Visible(cache, k, time) == IF CacheContains(cache, k, time) THEN << cache[k] >> ELSE << >>

\* the profiles that a rebuild for key k can have produced: the table only
\* grows, so its earlier contents are its prefixes
ProfilesOf(k) ==
    { build_user_profile(get_user_transaction_history(SubSeq(db, 1, n), k, history_limit)) :
        n \in 0..Len(db) }

EntriesAreProfiles ==
    \A k \in DOMAIN user_profiles :
        /\ k \in Users
        /\ user_profiles[k].value \in ProfilesOf(k)

\* while the clock stands, the entry served for a key changes only by the
\* write of a caller that rebuilt that key, and becomes that caller's profile
OnlyOwnKey ==
    \A k \in Users :
        (now' = now /\ Visible(user_profiles', k, now') # Visible(user_profiles, k, now)) =>
            \E c \in Callers :
                /\ lookups[c].pc = "WRITE"
                /\ lookups'[c].pc = "RETURNED"
                /\ lookups[c].user_id = k
                /\ user_profiles'[k].value = lookups[c].profile

Called(i) ==
    /\ pc \in {"RULES_RUNNING", "AGGREGATE", "DONE", "ERROR"}
    /\ user_profile # NoProfile
    /\ ruleIdx > i \/ (ruleIdx = i /\ pc = "ERROR")

\* C16: whenever the High Amount rule is called with an amount and a profile
\* (avg, max) it returns a result whose weight is
\* min(0.4*[amount > 5000] + 0.3*[amount > 10*avg] + 0.3*[amount > 2*max], 0.6)
\* and that is triggered iff that sum is positive.
C16_HighAmountWeight ==
    (Called(1) /\ Has(transaction, "amount")) =>
        /\ Len(rule_results) >= 1
        /\ LET amount == transaction["amount"]
               avg == user_profile.avg_transaction_amount
               max == user_profile.max_transaction_amount
               sum == (IF amount > Dollars(5000) THEN 400 ELSE 0)
                        + (IF amount * avg.den > 10 * avg.num THEN 300 ELSE 0)
                        + (IF amount > 2 * max THEN 300 ELSE 0)
           IN /\ rule_results[1].rule_name = "High Amount Detection"
              /\ rule_results[1].weight = Min(sum, 600)
              /\ rule_results[1].triggered <=> sum > 0

\* number of stored transactions of user u with t - w <= timestamp <= t
CountIn(u, t, w) ==
    Cardinality({ i \in DOMAIN db : /\ db[i].user_id = u
                                    /\ t - w <= db[i].timestamp
                                    /\ db[i].timestamp <= t })

\* the four (window minutes, max) pairs of the claim
ClaimWindows == << << 1, 2 >>, << 5, 5 >>, << 15, 10 >>, << 60, 25 >> >>

\* C17: whenever the Transaction Velocity rule is called for a transaction of
\* user u at time t it returns a result whose weight is the sum, over the
\* windows (1, 2), (5, 5), (15, 10), (60, 25) whose count over [t - w, t] is at
\* least max, of 0.2 * min((count - max + 1) / max, 1.0), capped at 0.7, and
\* that is triggered iff some window has count >= max.
C17_VelocityWeight ==
    (Called(3) /\ Has(transaction, "user_id") /\ Has(transaction, "timestamp")
               /\ env.fault # "count") =>
        /\ Len(rule_results) >= 3
        /\ LET u == transaction["user_id"]
               t == transaction["timestamp"]
               count(j) == CountIn(u, t, ClaimWindows[j][1])
               max(j) == ClaimWindows[j][2]
               \* 0.2 * min((count - max + 1) / max, 1.0) in thousandths
               part(j) == IF count(j) >= max(j)
                          THEN IF count(j) - max(j) + 1 >= max(j) THEN 200
                               ELSE (200 * (count(j) - max(j) + 1)) \div max(j)
                          ELSE 0
               sum == part(1) + part(2) + part(3) + part(4)
           IN /\ rule_results[3].rule_name = "Transaction Velocity"
              /\ rule_results[3].weight = Min(sum, 700)
              /\ rule_results[3].triggered <=> \E j \in 1..4 : count(j) >= max(j)

\* every window is violated in full and the cap of 0.7 applies
C17_Witness ==
    /\ Called(3)
    /\ Len(rule_results) >= 3
    /\ rule_results[3].weight = 700
    /\ CountIn(transaction["user_id"], transaction["timestamp"], 1) >= 3
    /\ CountIn(transaction["user_id"], transaction["timestamp"], 60) >= 49

\* C18: whenever the Location Anomaly rule is called, in an analysis or on its
\* own with a profile of more than five cities, its result has weight
\* min(risk, 0.8), risk being 0.4 if the country is not among the profile's
\* non-empty common countries, else 0.1 if that list is empty, plus 0.3 if
\* the city is not among the profile's cities and these are more than 5, plus
\* 0.5 if the country is on the high-risk list; for Country_X and a non-empty
\* country list without it the weight is 0.8 and the rule is triggered.
C18_LocationWeight ==
    (Called(6) \/ pc = "RULE_RETURNED") =>
        /\ Len(rule_results) >= (IF pc = "RULE_RETURNED" THEN 1 ELSE 6)
        /\ LET result == rule_results[IF pc = "RULE_RETURNED" THEN 1 ELSE 6]
               country == Get(transaction, "location_country", "Unknown")
               city == Get(transaction, "location_city", "Unknown")
               countries == Range(user_profile.common_countries)
               cities == Range(user_profile.common_cities)
               risk == (IF countries = {} THEN 100
                        ELSE IF country \notin countries THEN 400 ELSE 0)
                       + (IF city \notin cities /\ Len(user_profile.common_cities) > 5
                          THEN 300 ELSE 0)
                       + (IF country \in {"Country_X", "Country_Y"} THEN 500 ELSE 0)
           IN /\ result.rule_name = "Location Anomaly"
              /\ result.weight = Min(risk, 800)
              /\ (country = "Country_X" /\ countries # {} /\ country \notin countries) =>
                    /\ result.weight = 800
                    /\ result.triggered

C18_Witness ==
    /\ Called(6)
    /\ Len(rule_results) >= 6
    /\ transaction["location_country"] = "Country_X"
    /\ user_profile.common_countries # << >>
    /\ rule_results[6].weight = 800
    /\ rule_results[6].triggered

\* number of stored transactions of user u to merchant category m with
\* t - w <= timestamp <= t
MerchantCountIn(u, m, t, w) ==
    Cardinality({ i \in DOMAIN db : /\ db[i].user_id = u
                                    /\ db[i].merchant_category = m
                                    /\ t - w <= db[i].timestamp
                                    /\ db[i].timestamp <= t })

NoMerchant(txn) == ~Has(txn, "merchant_id") \/ txn["merchant_id"] \in {None, ""}

\* C19: whenever the Merchant Velocity rule is called for a transaction
\* without merchant identifier it returns triggered = false and weight 0, also
\* when the merchant collaborator would fail; otherwise, h and f being the
\* numbers of the user's transactions to that merchant category in the
\* trailing hour and the trailing 5 minutes, it returns weight
\* min(0.4*[h >= 3] + 0.3*[f >= 2], 0.5) and triggered iff h >= 3 or f >= 2.
C19_MerchantWeight ==
    (Called(4) /\ Has(transaction, "user_id")) =>
        IF NoMerchant(transaction)
        THEN /\ Len(rule_results) >= 4
             /\ rule_results[4].rule_name = "Merchant Velocity"
             /\ ~rule_results[4].triggered
             /\ rule_results[4].weight = 0
        ELSE (Has(transaction, "timestamp") /\ env.fault # "merchant") =>
             /\ Len(rule_results) >= 4
             /\ LET h == MerchantCountIn(transaction["user_id"], transaction["merchant_id"],
                                         transaction["timestamp"], 60)
                    f == MerchantCountIn(transaction["user_id"], transaction["merchant_id"],
                                         transaction["timestamp"], 5)
                    sum == (IF h >= 3 THEN 400 ELSE 0) + (IF f >= 2 THEN 300 ELSE 0)
                IN /\ rule_results[4].rule_name = "Merchant Velocity"
                   /\ rule_results[4].weight = Min(sum, 500)
                   /\ rule_results[4].triggered <=> (h >= 3 \/ f >= 2)

\* the current call has built its profile from a non-empty fetched history
BuiltFrom(history) ==
    /\ pc \in {"RULES_RUNNING", "AGGREGATE", "DONE", "ERROR"}
    /\ user_profile # NoProfile
    /\ ~cache_hit
    /\ history = get_user_transaction_history(db, transaction["user_id"], history_limit)
    /\ history # << >>

\* the n most frequent values of s, most frequent first, equal frequencies by
\* ascending value
MostFrequent(s, n) == Take(RankByCountThenValue(s, Range(s)), n)

\* C20 as stated: common_hours and common_days of a profile built from a
\* non-empty history are the three most frequent hours and weekdays of the
\* fetched transactions (all of them if fewer than three), by descending
\* frequency and then ascending value.
C20_CommonAreTopThree ==
    \A history \in { get_user_transaction_history(db, Get(transaction, "user_id", None),
                                                  history_limit) } :
        BuiltFrom(history) =>
            /\ user_profile.common_hours = MostFrequent(Column(history, "hour"), 3)
            /\ user_profile.common_days = MostFrequent(Column(history, "day_of_week"), 3)

\* the sequence c lists, in ascending order, the smallest three (or all, if
\* fewer) of the values of s that no other value of s is more frequent than
ModesOf(c, s) ==
    LET modes == { v \in Range(s) : \A w \in Range(s) : CountOf(s, v) >= CountOf(s, w) }
    IN /\ Range(c) \subseteq modes
       /\ \A i, j \in DOMAIN c : i < j => c[i] < c[j]
       /\ Len(c) = Min(3, Cardinality(modes))
       /\ \A v \in modes \ Range(c) : \A x \in Range(c) : x < v

\* C20 amended: common_hours and common_days of a profile built from a
\* non-empty history are the modes of the hours and weekdays of the fetched
\* transactions - the values of the highest frequency only - in ascending
\* order and cut to the three smallest.
C20_CommonAreModes ==
    \A history \in { get_user_transaction_history(db, Get(transaction, "user_id", None),
                                                  history_limit) } :
        BuiltFrom(history) =>
            /\ ModesOf(user_profile.common_hours, Column(history, "hour"))
            /\ ModesOf(user_profile.common_days, Column(history, "day_of_week"))

\* a history with a second most frequent hour that common_hours leaves out
C20_Witness ==
    /\ pc = "RULES_RUNNING"
    /\ user_profile # NoProfile
    /\ ~cache_hit
    /\ Len(user_profile.common_hours) < 3
    /\ \E i \in DOMAIN db :
          /\ db[i].user_id = transaction["user_id"]
          /\ HourOf(db[i].timestamp) \notin Range(user_profile.common_hours)

---------------------------------------------------------------------------
(* Order of the steps of a call *)

\* the rule_name of each catalog rule
CatalogRuleNames ==
    { "High Amount Detection", "Round Amount Detection", "Transaction Velocity",
      "Merchant Velocity", "Time Pattern Analysis", "Location Anomaly" }

\* the profile fetch of the current call raised
ProfileFetchFailed == pc = "ERROR" /\ user_profile = NoProfile

\* what holds at each step of a call
StepState ==
    \* no rule before the profile fetch has returned
    /\ rule_results # << >> => user_profile # NoProfile
    /\ pc = "PROFILE_FETCH" => rule_results = << >> /\ "count" \notin Range(queries)
    \* a rule is evaluated at most once, and the rules return in catalog order
    /\ pc \in {"RULES_RUNNING", "AGGREGATE", "DONE", "ERROR"} =>
          /\ \A i, j \in DOMAIN rule_results :
                 rule_results[i].rule_name = rule_results[j].rule_name => i = j
          /\ Range(Column(rule_results, "rule_name")) \subseteq CatalogRuleNames
    /\ pc = "RULES_RUNNING" => Len(rule_results) < 6
    \* the aggregated fields keep their initial values until AGGREGATE
    /\ pc \in {"PROFILE_FETCH", "RULES_RUNNING", "AGGREGATE"} =>
          /\ analysis_result.confidence = 0
          /\ analysis_result.risk_level = "LOW"
          /\ analysis_result.recommendation = "APPROVE"
          /\ analysis_result.is_fraud = FALSE
    \* aggregation has every catalog rule's result, once
    /\ pc \in {"AGGREGATE", "DONE"} =>
          /\ Len(rule_results) = 6
          /\ Range(Column(rule_results, "rule_name")) = CatalogRuleNames
    \* a failed profile fetch: no rule, no count query
    /\ ProfileFetchFailed =>
          /\ rule_results = << >>
          /\ analysis_result.triggered_rules = << >>
          /\ "count" \notin Range(queries)
          /\ "merchant" \notin Range(queries)

\* the steps a call may take
StepOrder ==
    /\ pc = "PROFILE_FETCH" => pc' \in {"RULES_RUNNING", "ERROR"}
    /\ pc = "RULES_RUNNING" =>
          /\ pc' \in {"RULES_RUNNING", "AGGREGATE", "ERROR"}
          /\ pc' # "ERROR" => Len(rule_results') = Len(rule_results) + 1
          /\ pc' = "ERROR" => rule_results' = rule_results
    /\ pc = "AGGREGATE" => pc' = "DONE" /\ rule_results' = rule_results
    /\ pc' = "PROFILE_FETCH" => pc = "idle"
    /\ pc' = "RULES_RUNNING" => pc \in {"PROFILE_FETCH", "RULES_RUNNING"}
    /\ pc' = "AGGREGATE" => pc = "RULES_RUNNING"
    /\ pc' = "DONE" => pc = "AGGREGATE"
    /\ pc' = "ERROR" => pc \in {"PROFILE_FETCH", "RULES_RUNNING"}

\* C21: a call goes from its start to PROFILE_FETCH, RULES_RUNNING, AGGREGATE
\* and DONE in that order, or to ERROR from the profile fetch or from a rule;
\* no rule is evaluated before the profile fetch has returned; the aggregated
\* fields are computed only after all six catalog rules have returned, each
\* of them once; and a call whose profile fetch fails ends in ERROR without
\* an evaluated rule and without a count query.
C21_StepOrder == [](StepState) /\ [][StepOrder]_vars

\* a call is DONE after its history query, the four count queries of the
\* velocity rule and the merchant query, with six rule results
C21_Witness ==
    /\ pc = "DONE"
    /\ Len(rule_results) = 6
    /\ queries = << "history", "count", "count", "count", "count", "merchant" >>

---------------------------------------------------------------------------
(* BLOCK *)

\* C22: a completed analysis is recommended BLOCK exactly when its
\* fraud_score is at least 0.8 and at least two rules triggered; a completed
\* analysis with fraud_score at least 0.8 and exactly one triggered rule is
\* CRITICAL and recommended REVIEW, its confidence (1/3 + min(W, 1)) / 2 being
\* below 0.7.
C22_BlockNeedsTwoRules ==
    pc = "DONE" =>
        LET n == Len(Triggered(rule_results))
            W == TriggeredWeight(rule_results)
        IN /\ analysis_result.recommendation = "BLOCK"
                <=> (analysis_result.fraud_score >= 800 /\ n >= 2)
           /\ (analysis_result.fraud_score >= 800 /\ n = 1) =>
                /\ analysis_result.risk_level = "CRITICAL"
                /\ analysis_result.recommendation = "REVIEW"
                /\ analysis_result.confidence = (2000 + 6 * Min(W, ScoreOne)) \div 2
                /\ analysis_result.confidence < 4200

\* a completed analysis whose only triggered rule is Location Anomaly with
\* weight 0.8
C22_Witness ==
    /\ pc = "DONE"
    /\ analysis_result.fraud_score = 800
    /\ Len(Triggered(rule_results)) = 1
    /\ analysis_result.recommendation = "REVIEW"

---------------------------------------------------------------------------
(* Lengths of the profile's lists *)

\* the profile of the current analysis, once get_user_profile has returned it
\* (a rule called on its own is handed a profile by its caller)
ReturnedProfiles ==
    IF pc \in {"RULES_RUNNING", "AGGREGATE", "DONE", "ERROR"} /\ user_profile # NoProfile
    THEN { user_profile } ELSE {}

\* the Location Anomaly results of the current analysis
LocationResults ==
    IF pc = "RULE_RETURNED" THEN {}
    ELSE { rule_results[i] : i \in { j \in DOMAIN rule_results :
                                       rule_results[j].rule_name = "Location Anomaly" } }

\* the cities of the rows of user u in the table
KnownCities(u) ==
    { _extract_city_from_location(db[i].location) :
        i \in { j \in DOMAIN db : db[j].user_id = u } }

\* C23: every profile returned by get_user_profile has at most 5
\* common_cities and at most 3 common_countries, common_hours and
\* common_days; so in an analysis run through analyze_transaction the
\* Location Anomaly rule never reports a new city and never adds its 0.3.
C23_ListsAreShort ==
    /\ \A p \in ReturnedProfiles \cup { user_profiles[k].value : k \in DOMAIN user_profiles } :
          /\ Len(p.common_cities) <= 5
          /\ Len(p.common_countries) <= 3
          /\ Len(p.common_hours) <= 3
          /\ Len(p.common_days) <= 3
    /\ \A r \in LocationResults :
          /\ "New city" \notin Range(r.details)
          /\ r.weight \in {0, 100, 400, 500, 600, 800}

\* an analysis is DONE for a user whose history has six cities, five
\* countries, six hours and six days, with a transaction in a seventh city
C23_Witness ==
    /\ pc = "DONE"
    /\ Cardinality(KnownCities(transaction["user_id"])) > 5
    /\ transaction["location_city"] \notin KnownCities(transaction["user_id"])
    /\ Len(user_profile.common_cities) = 5
    /\ Len(user_profile.common_countries) = 3
    /\ Len(user_profile.common_hours) = 3
    /\ Len(user_profile.common_days) = 3
    /\ LocationResults # {}

---------------------------------------------------------------------------
(* triggered and weight *)

\* C24: every RuleResult returned by a catalog rule is triggered exactly when
\* its accumulated risk, and so its weight, is greater than 0: a result that
\* is not triggered has weight 0.
C24_TriggeredIffRisk ==
    \A i \in DOMAIN rule_results :
        rule_results[i].triggered <=> rule_results[i].weight > 0

=============================================================================
